---- MODULE Spec2Model ----
(***************************************************************************)
(* A model of the LangGraph agent template (src/agent.py, src/tools.py,    *)
(* src/config.py, src/main.py) and of the receipt poller                   *)
(* (src/nim-go-sdk/examples/hackathon-starter/receipt.py).                 *)
(*                                                                         *)
(* The specifications of the module:                                       *)
(*   Spec          startup, then main's interactive loop driving Agent.run *)
(*   SpecExamples  main's examples loop                                    *)
(*   SpecStream    Agent.stream, item by item                              *)
(*   SpecConc      two simultaneous calls of Agent.run / Agent.arun        *)
(*   SpecCalc      the tool calculate applied to bounded expressions       *)
(*   SpecSearch    the tool search_knowledge_base applied to queries       *)
(*   SpecText      the tool text_analysis applied to bounded texts         *)
(*   SpecPoll      tabscanner_poll_result against a scripted endpoint      *)
(*   SpecExternal  the interactive loop and receipt.py's main, side by     *)
(*                 side, with their calls of external services             *)
(***************************************************************************)
EXTENDS Integers, Sequences, FiniteSets, TLC

(***************************************************************************)
(* Bounds of the model (not program constants).                            *)
(***************************************************************************)
MaxTurns == 3          \* inputs main's interactive loop reads
MaxModelCalls == 3     \* invocations of the language model in a session
MaxToolCalls == 2      \* tool calls the model requests in a session
MaxCallArgs == 1       \* arguments of a call in a calculate expression
MaxTime == 5           \* ticks of the poller's clock
MaxRequests == 4       \* requests the poller sends
MaxTimeout == 2        \* largest timeout_s a caller passes
MaxStreams == 2        \* calls of Agent.stream
MaxPad == 1            \* characters around the word of a query
MaxTextLen == 4        \* characters of a text given to text_analysis

(***************************************************************************)
(* Strings are modelled as sequences of pieces, so that the formatting the *)
(* code does (f-strings, str()) keeps a structure a check can look into.   *)
(***************************************************************************)
Text(s) == <<s>>

(***************************************************************************)
(* Expressions given to calculate: the abstract syntax eval() parses.      *)
(* Every node has the same shape: k the node kind, s a name, n a literal.  *)
(***************************************************************************)
Num(n) == [k |-> "num", s |-> "", n |-> n, args |-> <<>>]
Name(id) == [k |-> "name", s |-> id, n |-> 0, args |-> <<>>]
Attr(v, a) == [k |-> "attr", s |-> a, n |-> 0, args |-> <<v>>]
Call(f, as) == [k |-> "call", s |-> "", n |-> 0, args |-> <<f>> \o as]
Add(l, r) == [k |-> "add", s |-> "+", n |-> 0, args |-> <<l, r>>]
IfExp(body, test, orelse) == [k |-> "ifexp", s |-> "", n |-> 0, args |-> <<test, body, orelse>>]

(***************************************************************************)
(* Values of the evaluation: t the type, n the number (for a float its     *)
(* integer part), r the pieces of str(value).                              *)
(***************************************************************************)
IntVal(n) == [t |-> "int", n |-> n, r |-> <<ToString(n)>>]
FloatVal(n, r) == [t |-> "float", n |-> n, r |-> r]
FnVal(name) == [t |-> "fn", n |-> 0, r |-> <<"<built-in function ", name, ">">>]
TypeVal(name) == [t |-> "type", n |-> 0, r |-> <<"<class '", name, "'>">>]
MethodVal(name) == [t |-> "method", n |-> 0, r |-> <<"<built-in method ", name, ">">>]
DictVal == [t |-> "dict", n |-> 0, r |-> <<"{}">>]
NoVal == [t |-> "none", n |-> 0, r |-> <<>>]

\* safe_dict: the names calculate offers to the expression.
Whitelist == {"abs", "round", "min", "max", "sum", "pow", "sqrt", "sin", "cos", "tan", "pi", "e"}

safe_dict(id) ==
    CASE id = "pi" -> FloatVal(3, <<"3.141592653589793">>)
      [] id = "e" -> FloatVal(2, <<"2.718281828459045">>)
      [] OTHER -> FnVal(id)

\* The globals handed to eval: one entry, __builtins__, bound to an empty dict.
EvalGlobals == {"__builtins__"}

\* An evaluation outcome: a value or a raised exception, and the callables run.
Ok(v, ran) == [ok |-> TRUE, val |-> v, exc |-> "", ran |-> ran]
Raise(exc, ran) == [ok |-> FALSE, val |-> NoVal, exc |-> exc, ran |-> ran]

\* Name resolution of eval(expression, {"__builtins__": {}}, safe_dict):
\* locals, then globals, then the (empty) builtins, then NameError.
LookupName(id) ==
    IF id \in Whitelist THEN Ok(safe_dict(id), {})
    ELSE IF id \in EvalGlobals THEN Ok(DictVal, {})
    ELSE Raise("NameError", {})

TypeName(v) ==
    CASE v.t = "fn" -> "builtin_function_or_method"
      [] v.t = "method" -> "builtin_function_or_method"
      [] OTHER -> v.t

\* getattr on a value, for the attributes the bounded expressions use.
GetAttr(v, a) ==
    CASE a = "__class__" -> Ok(TypeVal(TypeName(v)), {})
      [] a = "bit_length" /\ v.t = "int" -> Ok(MethodVal("int.bit_length"), {})
      [] OTHER -> Raise("AttributeError", {})

IsNumber(v) == v.t \in {"int", "float"}

Abs(n) == IF n < 0 THEN -n ELSE n

ISqrt(n) == CHOOSE r \in 0..n : r * r <= n /\ (r + 1) * (r + 1) > n

RECURSIVE BitLength(_)
BitLength(n) == IF n = 0 THEN 0 ELSE 1 + BitLength(Abs(n) \div 2)

\* The whitelisted functions, applied to evaluated arguments.
ApplyFn(name, as) ==
    LET ran == {name}
        a == IF Len(as) >= 1 THEN as[1] ELSE NoVal
    IN CASE name \in {"abs", "sqrt", "sin", "cos", "tan"} /\ Len(as) # 1 -> Raise("TypeError", ran)
         [] name = "round" /\ Len(as) \notin {1, 2} -> Raise("TypeError", ran)
         [] name = "pow" /\ Len(as) \notin {2, 3} -> Raise("TypeError", ran)
         [] name \in {"min", "max"} /\ Len(as) = 0 -> Raise("TypeError", ran)
         [] name = "sum" /\ Len(as) \notin {1, 2} -> Raise("TypeError", ran)
         \* min, max and sum of one argument want an iterable: a number is none
         [] name \in {"min", "max", "sum"} /\ Len(as) = 1 -> Raise("TypeError", ran)
         [] \E i \in 1..Len(as) : ~IsNumber(as[i]) -> Raise("TypeError", ran)
         [] name = "abs" /\ a.t = "int" -> Ok(IntVal(Abs(a.n)), ran)
         [] name = "abs" -> Ok(a, ran)
         [] name = "round" /\ Len(as) = 1 -> Ok(IntVal(a.n), ran)
         [] name = "sqrt" /\ a.n < 0 -> Raise("ValueError", ran)
         [] name = "sqrt" /\ a.t = "int" /\ ISqrt(a.n) * ISqrt(a.n) = a.n ->
                Ok(FloatVal(ISqrt(a.n), <<ToString(ISqrt(a.n)), ".0">>), ran)
         [] name = "sqrt" -> Ok(FloatVal(ISqrt(a.n), <<"sqrt(">> \o a.r \o <<")">>), ran)
         [] OTHER -> Ok(FloatVal(0, <<name, "(">> \o a.r \o <<")">>), ran)

\* Calling an evaluated callee: a whitelisted function, a type, a bound method.
ApplyValue(f, as) ==
    CASE f.t = "fn" -> ApplyFn(f.r[2], as)
      [] f.t = "type" /\ f.r[2] = "int" /\ as = <<>> -> Ok(IntVal(0), {"int"})
      [] f.t = "type" /\ f.r[2] = "int" /\ Len(as) = 1 /\ IsNumber(as[1]) -> Ok(IntVal(as[1].n), {"int"})
      [] f.t = "type" /\ f.r[2] = "float" /\ as = <<>> -> Ok(FloatVal(0, <<"0.0">>), {"float"})
      [] f.t = "type" /\ f.r[2] = "dict" /\ as = <<>> -> Ok(DictVal, {"dict"})
      [] f.t = "type" -> Raise("TypeError", {f.r[2]})
      [] f.t = "method" /\ as = <<>> -> Ok(IntVal(BitLength(f.n)), {"int.bit_length"})
      [] f.t = "method" -> Raise("TypeError", {})
      [] OTHER -> Raise("TypeError", {})   \* 'int' object is not callable

\* Python's truth value of a value.
Truthy(v) ==
    CASE v.t \in {"int", "float"} -> v.r # <<"0">> /\ v.r # <<"0", ".0">> /\ v.r # <<"0.0">>
      [] v.t = "dict" -> FALSE
      [] OTHER -> TRUE

AddValues(l, r) ==
    CASE l.t = "int" /\ r.t = "int" -> Ok(IntVal(l.n + r.n), {})
      [] IsNumber(l) /\ IsNumber(r) -> Ok(FloatVal(l.n + r.n, l.r \o <<"+">> \o r.r), {})
      [] OTHER -> Raise("TypeError", {})

\* eval(): names are resolved when the node is evaluated, operands left to
\* right, and a conditional evaluates only the branch its test selects.
RECURSIVE Eval(_)
EvalArgs(es) ==
    LET step(acc, e) ==
            IF ~acc.ok THEN acc
            ELSE LET x == Eval(e)
                 IN IF x.ok THEN [ok |-> TRUE, vals |-> Append(acc.vals, x.val), exc |-> "", ran |-> acc.ran \cup x.ran]
                    ELSE [ok |-> FALSE, vals |-> acc.vals, exc |-> x.exc, ran |-> acc.ran \cup x.ran]
        start == [ok |-> TRUE, vals |-> <<>>, exc |-> "", ran |-> {}]
        fold[i \in 0..Len(es)] == IF i = 0 THEN start ELSE step(fold[i - 1], es[i])
    IN fold[Len(es)]

Eval(e) ==
    CASE e.k = "num" -> Ok(IntVal(e.n), {})
      [] e.k = "name" -> LookupName(e.s)
      [] e.k = "attr" ->
            LET v == Eval(e.args[1])
            IN IF ~v.ok THEN v
               ELSE LET g == GetAttr(v.val, e.s)
                    IN IF g.ok /\ g.val.t = "method"
                       THEN Ok([g.val EXCEPT !.n = v.val.n], v.ran)
                       ELSE [g EXCEPT !.ran = v.ran]
      [] e.k = "call" ->
            LET xs == EvalArgs(e.args)
            IN IF ~xs.ok THEN Raise(xs.exc, xs.ran)
               ELSE LET res == ApplyValue(Head(xs.vals), Tail(xs.vals))
                    IN [res EXCEPT !.ran = xs.ran \cup res.ran]
      [] e.k = "add" ->
            LET xs == EvalArgs(e.args)
            IN IF ~xs.ok THEN Raise(xs.exc, xs.ran)
               ELSE [AddValues(xs.vals[1], xs.vals[2]) EXCEPT !.ran = xs.ran]
      [] e.k = "ifexp" ->
            LET c == Eval(e.args[1])
            IN IF ~c.ok THEN c
               ELSE LET b == Eval(IF Truthy(c.val) THEN e.args[2] ELSE e.args[3])
                    IN [b EXCEPT !.ran = c.ran \cup b.ran]
      [] OTHER -> Raise("SyntaxError", {})

ErrorPrefix == "Error calculating expression: "

\* A tool's outcome: the string it returns, or an exception leaving the tool.
Returned(out, ran) == [raised |-> FALSE, out |-> out, ran |-> ran]
Escaped(exc, ran) == [raised |-> TRUE, out |-> Text(exc), ran |-> ran]

\* calculate: str(result), or the error string for any Exception of eval.
\* (calculate_unguarded is calculate without its try/except.)
calculate_unguarded(expression) ==
    LET x == Eval(expression)
    IN IF x.ok THEN Returned(x.val.r, x.ran) ELSE Escaped(x.exc, x.ran)

calculate(expression) ==
    LET x == Eval(expression)
    IN IF x.ok THEN Returned(x.val.r, x.ran)
       ELSE Returned(<<ErrorPrefix, x.exc>>, x.ran)

(***************************************************************************)
(* The other tools of src/tools.py.  A query or a text is a sequence of    *)
(* characters.                                                             *)
(***************************************************************************)
Lowercase ==
    ("A" :> "a") @@ ("G" :> "g") @@ ("H" :> "h") @@ ("I" :> "i") @@ ("L" :> "l") @@
    ("N" :> "n") @@ ("O" :> "o") @@ ("P" :> "p") @@ ("R" :> "r") @@ ("T" :> "t") @@
    ("Y" :> "y") @@ ("Z" :> "z")

\* str.lower()
lower(s) == [i \in 1..Len(s) |-> IF s[i] \in DOMAIN Lowercase THEN Lowercase[s[i]] ELSE s[i]]

\* key in s
Contains(s, key) ==
    \E i \in 0..(Len(s) - Len(key)) : \A j \in 1..Len(key) : s[i + j] = key[j]

PythonFact == "Python is a high-level, interpreted programming language known for its simplicity and readability."
LangGraphFact == "LangGraph is a library for building stateful, multi-actor applications with LLMs, using graph-based workflows."
AIFact == "Artificial Intelligence (AI) refers to the simulation of human intelligence in machines programmed to think and learn."

\* The dict of search_knowledge_base, in its insertion (and iteration) order.
knowledge_base ==
    << <<<<"p", "y", "t", "h", "o", "n">>, PythonFact>>,
       <<<<"l", "a", "n", "g", "g", "r", "a", "p", "h">>, LangGraphFact>>,
       <<<<"a", "i">>, AIFact>> >>

NotFoundPrefix == "No information found for query: "

search_case_sensitive(query) ==
    LET hits == {i \in 1..Len(knowledge_base) : Contains(query, knowledge_base[i][1])}
    IN IF hits # {}
       THEN Returned(Text(knowledge_base[CHOOSE i \in hits : \A j \in hits : i <= j][2]), {})
       ELSE Returned(<<NotFoundPrefix>> \o query, {})

search_knowledge_base(query) ==
    LET query_lower == lower(query)
        hits == {i \in 1..Len(knowledge_base) : Contains(query_lower, knowledge_base[i][1])}
    IN IF hits # {}
       THEN Returned(Text(knowledge_base[CHOOSE i \in hits : \A j \in hits : i <= j][2]), {})
       ELSE Returned(<<NotFoundPrefix>> \o query, {})

\* get_current_time: the clock read, formatted "%Y-%m-%d %H:%M:%S".
get_current_time == Returned(Text("%Y-%m-%d %H:%M:%S"), {})

Whitespace == {" ", "\t", "\n"}

\* len(text.split()): the maximal runs of characters that are not whitespace.
WordCountBySpaces(text) ==
    Cardinality({i \in 1..Len(text) : text[i] # " " /\ (i = 1 \/ text[i - 1] = " ")})

WordCount(text) ==
    Cardinality({i \in 1..Len(text) :
        text[i] \notin Whitespace /\ (i = 1 \/ text[i - 1] \in Whitespace)})

CountOf(text, cs) == Cardinality({i \in 1..Len(text) : text[i] \in cs})

Max(a, b) == IF a >= b THEN a ELSE b

\* f"{q / w:.2f}": the quotient to two decimals, ties to even.
TwoDecimals(q, w) ==
    LET h == (100 * q) \div w
        rem == (100 * q) % w
        up == 2 * rem > w \/ (2 * rem = w /\ h % 2 = 1)
        hh == IF up THEN h + 1 ELSE h
        frac == hh % 100
    IN <<ToString(hh \div 100), ".", IF frac < 10 THEN "0" ELSE "", ToString(frac)>>

text_analysis(text) ==
    LET word_count == WordCount(text)
        char_count == Len(text)
        char_count_no_spaces == char_count - CountOf(text, {" "})
        sentence_count == CountOf(text, {"."}) + CountOf(text, {"!"}) + CountOf(text, {"?"})
    IN Returned(
         <<"Text Analysis Results:", "\n- Word count: ", ToString(word_count),
           "\n- Character count: ", ToString(char_count),
           "\n- Characters (no spaces): ", ToString(char_count_no_spaces),
           "\n- Estimated sentences: ", ToString(sentence_count),
           "\n- Average word length: ">>
         \o TwoDecimals(char_count_no_spaces, Max(word_count, 1)) \o <<" characters">>, {})

\* get_available_tools(): the names of the registered tools, in order.
get_available_tools == <<"get_current_time", "calculate", "search_knowledge_base", "text_analysis">>

ToolNames == {get_available_tools[i] : i \in 1..Len(get_available_tools)}

\* The argument each tool's signature requires.
RequiredArgs(name) ==
    CASE name = "calculate" -> {"expression"}
      [] name = "search_knowledge_base" -> {"query"}
      [] name = "text_analysis" -> {"text"}
      [] OTHER -> {}

(***************************************************************************)
(* Messages.  Every message has the same fields; a field a message type    *)
(* does not carry holds its empty value.                                   *)
(***************************************************************************)
NoExpr == [k |-> "none", s |-> "", n |-> 0, args |-> <<>>]

Args(keys, expression, query, text) ==
    [keys |-> keys, expression |-> expression, query |-> query, text |-> text]

NoArgs == Args({}, NoExpr, <<>>, <<>>)

ToolCall(id, name, args) == [id |-> id, name |-> name, args |-> args]

Message(id, type, content, tool_calls, tool_call_id, status) ==
    [id |-> id, type |-> type, content |-> content, tool_calls |-> tool_calls,
     tool_call_id |-> tool_call_id, status |-> status]

HumanMessage(id, content) == Message(id, "human", Text(content), <<>>, 0, "")
AIMessage(id, content, tool_calls) == Message(id, "ai", content, tool_calls, 0, "")
ToolMessage(id, content, tool_call_id, status) == Message(id, "tool", content, <<>>, tool_call_id, status)

(***************************************************************************)
(* State.                                                                  *)
(***************************************************************************)
VARIABLES
    \* main (src/main.py) and Agent.run (src/agent.py)
    pc,                    \* where the session is: input, agent, tools, returned, raised, exited
    conversation_history,  \* the list main holds and passes to Agent.run
    given,                 \* the contents of that list when it was last passed in
    state,                 \* AgentState["messages"] of the running graph
    nextId,                \* source of fresh message and tool-call ids
    turn,                  \* calls of Agent.run made so far
    modelCalls,            \* invocations of the model made so far
    toolCalls,             \* tool calls requested so far
    rounds,                \* model/tool rounds completed in the current run
    error,                 \* the exception being raised: "", model, tool, or its message
    MAX_ITERATIONS,        \* Config.MAX_ITERATIONS, read from the environment
    OPENAI_API_KEY,        \* Config.OPENAI_API_KEY, read from the environment
    inputs,                \* the user inputs passed to Agent.run so far, in order
    failures,              \* exceptions the model or a tool has raised so far
    \* calculate applied to one expression
    calcPc, expression, calcResult,
    \* tabscanner_poll_result
    pollPc,                \* where the poller is: idle, wait, request, sleep, or how it ended
    now,                   \* time.time(), in ticks
    start,                 \* the poller's start
    checked,               \* time.time() as the deadline check last read it
    requests,              \* GET requests sent
    polled,                \* the payloads received, in order
    timeout_s, poll_every_s,
    \* simultaneous calls of Agent.run / Agent.arun on one Agent
    lists,                 \* the list objects: each caller's history and each `or []`
    ref,                   \* per call, the list `messages` is bound to
    spc,                   \* per call, where it is
    sstate,                \* per call, AgentState["messages"] of its graph run
    replies,               \* per call, the tool requests of the model's replies so far
    histories,             \* per call, the history as it was passed in
    \* a tool called on its own: search_knowledge_base(query), text_analysis(text)
    toolPc, query, text, toolResult,
    \* tabscanner_process
    uploads,               \* POST requests sent
    token,                 \* the token tabscanner_process returned, "" before
    \* Agent.stream
    streams,               \* calls of Agent.stream made so far
    streamInput,           \* user_input of the generator stream returned last
    yielded                \* the items that generator has yielded, in order

loopVars == <<pc, conversation_history, given, state, nextId, turn, modelCalls, toolCalls,
              rounds, error, MAX_ITERATIONS, OPENAI_API_KEY, inputs, failures>>
calcVars == <<calcPc, expression, calcResult>>
pollVars == <<pollPc, now, start, checked, requests, polled, timeout_s, poll_every_s>>
uploadVars == <<uploads, token>>
streamVars == <<streams, streamInput, yielded>>
concVars == <<lists, ref, spc, sstate, replies, histories>>
toolVars == <<toolPc, query, text, toolResult>>
vars == <<loopVars, calcVars, pollVars, uploadVars, streamVars, concVars, toolVars>>

\* What an action of one specification leaves alone.
outsideLoop == <<calcVars, pollVars, uploadVars, streamVars, concVars, toolVars>>
outsideCalc == <<loopVars, pollVars, uploadVars, streamVars, concVars, toolVars>>
outsidePoll == <<loopVars, calcVars, uploadVars, streamVars, concVars, toolVars>>
outsideStream == <<calcVars, pollVars, uploadVars, concVars, toolVars>>
outsideTool == <<loopVars, calcVars, pollVars, uploadVars, streamVars, concVars>>
outsideConc == <<calcVars, pollVars, uploadVars, streamVars, toolVars>>
pollVarsButPc == <<now, start, checked, requests, polled, timeout_s, poll_every_s>>
outsideReceipt == <<loopVars, calcVars, streamVars, concVars, toolVars>>

(***************************************************************************)
(* The graph's reducer and nodes (src/agent.py).                           *)
(***************************************************************************)
Last(messages) == messages[Len(messages)]

\* add_messages, the reducer AgentState declares for "messages": a message
\* whose id is already in the list replaces that entry, any other is appended.
add_messages_replacing(left, right) == right

RECURSIVE add_messages(_, _)
add_messages(left, right) ==
    IF right = <<>> THEN left
    ELSE LET m == Head(right)
             hit == {i \in 1..Len(left) : left[i].id = m.id}
             merged == IF hit = {} THEN Append(left, m)
                       ELSE [left EXCEPT ![CHOOSE i \in hit : TRUE] = m]
         IN add_messages(merged, Tail(right))

\* What a tool returns for a call whose arguments passed validation.
RunTool(call) ==
    CASE call.name = "get_current_time" -> get_current_time
      [] call.name = "calculate" -> calculate(call.args.expression)
      [] call.name = "search_knowledge_base" -> search_knowledge_base(call.args.query)
      [] call.name = "text_analysis" -> text_analysis(call.args.text)

\* Whether the call names a registered tool with the arguments it requires.
KnownTool(call) == call.name \in ToolNames
ValidArgs(call) == call.args.keys = RequiredArgs(call.name)

\* ToolNode(self.tools), for one tool call: an unknown tool name and invalid
\* arguments become error messages; the result of the tool becomes the content.
\* An exception a tool lets escape is not handled in src/ and leaves the node.
ToolNodeOne(call, id) ==
    IF ~KnownTool(call)
    THEN [raised |-> FALSE,
          msg |-> ToolMessage(id, <<"Error: ", call.name, " is not a valid tool, try one of ">>
                                  \o get_available_tools, call.id, "error")]
    ELSE IF ~ValidArgs(call)
    THEN [raised |-> FALSE,
          msg |-> ToolMessage(id, <<"Error: ", "ValidationError", "\n Please fix your mistakes.">>,
                              call.id, "error")]
    ELSE LET res == RunTool(call)
         IN [raised |-> res.raised, msg |-> ToolMessage(id, res.out, call.id, "success")]

\* ToolNode over the tool calls of the last message: one message per call, in
\* the order of the calls.
ToolNodeReversed(calls, firstId) ==
    [i \in 1..Len(calls) |-> ToolNodeOne(calls[Len(calls) + 1 - i], firstId + i - 1)]

ToolNodeOutputs(calls, firstId) ==
    [i \in 1..Len(calls) |-> ToolNodeOne(calls[i], firstId + i - 1)]

\* Agent._should_continue
should_continue_always(messages) == "continue"

_should_continue(messages) ==
    LET last_message == messages[Len(messages)]
    IN IF last_message.tool_calls # <<>> THEN "continue" ELSE "end"

\* The first two statements of Agent.run: messages = conversation_history or [],
\* then messages.append(HumanMessage(...)).  A non-empty list is the caller's
\* own list; an empty one is replaced by a fresh list.
IsCallersListNever(history) == FALSE

IsCallersListAlways(history) == TRUE

IsCallersList(history) == history # <<>>

RunMessagesFresh(history, human) == <<human>>

RunMessages(history, human) == Append(history, human)

(***************************************************************************)
(* What the environment supplies.                                          *)
(***************************************************************************)
UserInputs == {"What time is it right now?", "Calculate the square root of 144"}

MaxIterationsEnv == {1, 10}   \* MAX_ITERATIONS of the environment; 10 is the default

\* OPENAI_API_KEY of the environment: unset (os.getenv gives None), empty, set.
ApiKeyEnv == {"None", "", "sk-test"}

Request(name, args) == [name |-> name, args |-> args]

\* The tool calls the model may ask for.
ToolRequests ==
    { Request("get_current_time", NoArgs),
      Request("calculate", Args({"expression"}, Call(Name("sqrt"), <<Num(16)>>), <<>>, <<>>)),
      Request("calculate", Args({"expression"}, Call(Name("sqrt"), <<Num(-1)>>), <<>>, <<>>)),
      Request("search_knowledge_base", Args({"query"}, NoExpr, <<"A", "I">>, <<>>)),
      Request("text_analysis", NoArgs),
      Request("web_search", NoArgs) }

SeqsUpTo(S, n) == UNION {[1..k -> S] : k \in 0..n}

(***************************************************************************)
(* Initial state.                                                          *)
(***************************************************************************)
NoResult == Returned(<<>>, {})

LoopEmpty ==
    /\ conversation_history = <<>>
    /\ given = <<>>
    /\ state = <<>>
    /\ nextId = 1
    /\ turn = 0
    /\ modelCalls = 0
    /\ toolCalls = 0
    /\ rounds = 0
    /\ error = ""
    /\ inputs = <<>>
    /\ failures = 0

\* main at its prompt, with the Agent constructed and nothing said yet.
LoopIdle == pc = "input" /\ LoopEmpty

CalcIdle == calcPc = "idle" /\ expression = NoExpr /\ calcResult = NoResult

PollIdle ==
    /\ pollPc = "idle"
    /\ now = 0
    /\ start = 0
    /\ checked = 0
    /\ requests = 0
    /\ polled = <<>>
    /\ timeout_s = 0
    /\ poll_every_s = 0
    /\ uploads = 0
    /\ token = ""

StreamIdle == streams = 0 /\ streamInput = "" /\ yielded = <<>>

ToolIdle == toolPc = "idle" /\ query = <<>> /\ text = <<>> /\ toolResult = NoResult

ConcIdle ==
    /\ lists = <<>> /\ ref = <<>> /\ spc = <<>>
    /\ sstate = <<>> /\ replies = <<>> /\ histories = <<>>

Init ==
    /\ pc = "startup"
    /\ LoopEmpty
    /\ MAX_ITERATIONS \in MaxIterationsEnv
    /\ OPENAI_API_KEY \in ApiKeyEnv
    /\ CalcIdle
    /\ PollIdle
    /\ StreamIdle
    /\ ConcIdle
    /\ ToolIdle

(***************************************************************************)
(* Startup (src/config.py, src/main.py).                                   *)
(***************************************************************************)
\* Config.validate: True, or ValueError when `not cls.OPENAI_API_KEY`.
MissingKeyError ==
    "OPENAI_API_KEY not found. Please set it in your .env file or environment variables."

validate_anything(key) == TRUE

validate(key) == key \notin {"None", ""}

\* main.py imports config, whose last statement calls Config.validate(); only
\* when the import succeeded does main() run and construct the Agent.  A
\* ValueError at import ends the process.
Startup ==
    /\ pc = "startup"
    /\ pc' = IF validate(OPENAI_API_KEY) THEN "input" ELSE "startup_failed"
    /\ error' = IF validate(OPENAI_API_KEY) THEN "" ELSE MissingKeyError
    /\ UNCHANGED <<conversation_history, given, state, nextId, turn, modelCalls, toolCalls, rounds,
                   MAX_ITERATIONS, OPENAI_API_KEY, inputs, failures>>
    /\ UNCHANGED outsideLoop

(***************************************************************************)
(* main's interactive loop and Agent.run.                                  *)
(***************************************************************************)
\* main reads a line (an empty line is skipped and changes nothing) and calls
\* agent.run(user_input, conversation_history);
\* run appends the HumanMessage and hands the list to the graph, whose
\* "messages" channel takes it through the reducer.  The entry point is agent.
ReadInput(user_input) ==
    /\ pc = "input"
    /\ turn < MaxTurns
    /\ LET human == HumanMessage(nextId, user_input)
           messages == RunMessages(conversation_history, human)
       IN /\ given' = conversation_history
          /\ conversation_history' =
                IF IsCallersList(conversation_history) THEN messages ELSE conversation_history
          /\ state' = add_messages(<<>>, messages)
    /\ nextId' = nextId + 1
    /\ turn' = turn + 1
    /\ rounds' = 0
    /\ pc' = "agent"
    /\ UNCHANGED <<modelCalls, toolCalls, error, MAX_ITERATIONS, OPENAI_API_KEY, failures>>
    /\ inputs' = Append(inputs, user_input)
    /\ UNCHANGED outsideLoop

\* Agent._call_model returns the model's reply, the reducer adds it, and
\* _should_continue routes to the tools node or to END, where run returns.
\* Nothing in src/ limits the rounds of a run (Config.MAX_ITERATIONS is not
\* read by the agent); MaxModelCalls and MaxToolCalls bound the session here.
CallModel(asked) ==
    /\ pc = "agent"
    /\ modelCalls < MaxModelCalls
    /\ Len(asked) <= MaxToolCalls - toolCalls
    /\ LET tool_calls == [i \in 1..Len(asked) |-> ToolCall(nextId + i, asked[i].name, asked[i].args)]
           response == AIMessage(nextId, IF asked = <<>> THEN Text("answer") ELSE <<>>, tool_calls)
           messages == add_messages(state, <<response>>)
       IN /\ state' = messages
          /\ pc' = IF _should_continue(messages) = "continue" THEN "tools" ELSE "returned"
    /\ nextId' = nextId + Len(asked) + 1
    /\ modelCalls' = modelCalls + 1
    /\ toolCalls' = toolCalls + Len(asked)
    /\ UNCHANGED <<conversation_history, given, turn, rounds, error, MAX_ITERATIONS, OPENAI_API_KEY, inputs, failures>>
    /\ UNCHANGED outsideLoop

\* The model invocation raises: the exception leaves graph.invoke and run.
\* _call_model has no handler and no loop around self.model.invoke.
ModelFailsRetried ==
    /\ pc = "agent"
    /\ modelCalls < MaxModelCalls
    /\ modelCalls' = modelCalls + 1
    /\ failures' = failures + 1
    /\ UNCHANGED <<pc, conversation_history, given, state, nextId, turn, toolCalls, rounds, error,
                   MAX_ITERATIONS, OPENAI_API_KEY, inputs>>
    /\ UNCHANGED outsideLoop

ModelFails ==
    /\ pc = "agent"
    /\ modelCalls < MaxModelCalls
    /\ modelCalls' = modelCalls + 1
    /\ pc' = "raised"
    /\ error' = "model"
    /\ UNCHANGED <<conversation_history, given, state, nextId, turn, toolCalls, rounds, MAX_ITERATIONS, OPENAI_API_KEY, inputs>>
    /\ failures' = failures + 1
    /\ UNCHANGED outsideLoop

\* The tools node runs the tool calls of the last message; the edge leads
\* back to agent.
ToolsNode ==
    /\ pc = "tools"
    /\ LET calls == state[Len(state)].tool_calls
           outputs == ToolNodeOutputs(calls, nextId)
       IN IF \E i \in 1..Len(outputs) : outputs[i].raised
          THEN /\ pc' = "raised"
               /\ error' = "tool"
               /\ failures' = failures + 1
               /\ UNCHANGED <<state, nextId, rounds>>
          ELSE /\ state' = add_messages(state, [i \in 1..Len(outputs) |-> outputs[i].msg])
               /\ nextId' = nextId + Len(calls)
               /\ rounds' = rounds + 1
               /\ pc' = "agent"
               /\ UNCHANGED <<error, failures>>
    /\ UNCHANGED <<conversation_history, given, turn, modelCalls, toolCalls, MAX_ITERATIONS, OPENAI_API_KEY, inputs>>
    /\ UNCHANGED outsideLoop

\* main prints the reply and keeps result["messages"] as the history.
UpdateHistorySkipped ==
    /\ pc = "returned"
    /\ pc' = "input"
    /\ UNCHANGED <<conversation_history, given, state, nextId, turn, modelCalls, toolCalls, rounds,
                   error, MAX_ITERATIONS, OPENAI_API_KEY, inputs, failures>>
    /\ UNCHANGED outsideLoop

UpdateHistory ==
    /\ pc = "returned"
    /\ conversation_history' = state
    /\ pc' = "input"
    /\ UNCHANGED <<given, state, nextId, turn, modelCalls, toolCalls, rounds, error, MAX_ITERATIONS, OPENAI_API_KEY, inputs, failures>>
    /\ UNCHANGED outsideLoop

\* main's except Exception: the error is printed and the loop goes on.
ReportError ==
    /\ pc = "raised"
    /\ pc' = "input"
    /\ error' = ""
    /\ UNCHANGED <<conversation_history, given, state, nextId, turn, modelCalls, toolCalls, rounds,
                   MAX_ITERATIONS, OPENAI_API_KEY, inputs, failures>>
    /\ UNCHANGED outsideLoop

\* quit, exit, bye or Ctrl-C at the prompt.
Quit ==
    /\ pc = "input"
    /\ pc' = "exited"
    /\ UNCHANGED <<conversation_history, given, state, nextId, turn, modelCalls, toolCalls, rounds,
                   error, MAX_ITERATIONS, OPENAI_API_KEY, inputs, failures>>
    /\ UNCHANGED outsideLoop

Next ==
    \/ Startup
    \/ \E user_input \in UserInputs : ReadInput(user_input)
    \/ \E asked \in SeqsUpTo(ToolRequests, MaxToolCalls) : CallModel(asked)
    \/ ModelFails
    \/ ToolsNode
    \/ UpdateHistory
    \/ ReportError
    \/ Quit

Spec == Init /\ [][Next]_vars

(***************************************************************************)
(* calculate on its own: one expression in, one string out.                *)
(***************************************************************************)
Literals == {-1, 0, 16}
Identifiers == {"sqrt", "abs", "pi", "x", "__import__", "__builtins__"}
Attributes == {"__class__", "bit_length"}

Atoms == {Num(n) : n \in Literals} \cup {Name(id) : id \in Identifiers}
AttrExprs == {Attr(v, a) : v \in Atoms, a \in Attributes}
CallExprs == {Call(f, as) : f \in Atoms \cup AttrExprs, as \in SeqsUpTo(Atoms, MaxCallArgs)}
AddExprs == {Add(l, r) : l \in Atoms, r \in Atoms}
IfExprs == {IfExp(b, t, o) : b \in Atoms, t \in Atoms, o \in Atoms}

Expressions == Atoms \cup AttrExprs \cup CallExprs \cup AddExprs \cup IfExprs

InitCalc ==
    /\ LoopIdle
    /\ MAX_ITERATIONS = 10
    /\ OPENAI_API_KEY = "sk-test"
    /\ PollIdle
    /\ StreamIdle
    /\ ConcIdle
    /\ ToolIdle
    /\ calcPc = "called"
    /\ expression \in Expressions
    /\ calcResult = NoResult

Calculate ==
    /\ calcPc = "called"
    /\ calcResult' = calculate(expression)
    /\ calcPc' = "returned"
    /\ UNCHANGED <<expression, outsideCalc>>

NextCalc == Calculate

SpecCalc == InitCalc /\ [][NextCalc]_vars

(***************************************************************************)
(* tabscanner_poll_result (receipt.py).  Time is counted in ticks; a       *)
(* request and a sleep may take longer than asked, never shorter.          *)
(***************************************************************************)
Statuses == {"pending", "done", "failed"}
SuccessFields == {"absent", "true", "false", "null"}   \* payload["success"], if any

Payload(status, success) == [status |-> status, success |-> success]
Payloads == {Payload(st, su) : st \in Statuses, su \in SuccessFields}

\* payload.get("success", True), as a truth value.
SuccessOrTrue(p) == p.success \in {"absent", "true"}
\* payload.get("success") is False
SuccessIsFalseNever(p) == FALSE

SuccessIsFalse(p) == p.success = "false"

\* What one pass of the loop body decides, from the payload and the clock
\* read after it: return, RuntimeError, TimeoutError, or sleep and go on.
PollDecisionTimeoutFirst(p, elapsed, timeout) ==
    IF elapsed > timeout THEN "timeout"
    ELSE IF p.status = "done" /\ SuccessOrTrue(p) THEN "returned"
    ELSE IF p.status = "failed" \/ SuccessIsFalse(p) THEN "failed"
    ELSE "sleep"

PollDecisionNoDeadline(p, elapsed, timeout) ==
    IF p.status = "done" /\ SuccessOrTrue(p) THEN "returned"
    ELSE IF p.status = "failed" \/ SuccessIsFalse(p) THEN "failed"
    ELSE "sleep"

PollDecision(p, elapsed, timeout) ==
    IF p.status = "done" /\ SuccessOrTrue(p) THEN "returned"
    ELSE IF p.status = "failed" \/ SuccessIsFalse(p) THEN "failed"
    ELSE IF elapsed > timeout THEN "timeout"
    ELSE "sleep"

InitPoll ==
    /\ LoopIdle
    /\ MAX_ITERATIONS = 10
    /\ OPENAI_API_KEY = "sk-test"
    /\ CalcIdle
    /\ StreamIdle
    /\ ConcIdle
    /\ ToolIdle
    /\ pollPc = "wait"
    /\ now = 0
    /\ start = 0
    /\ checked = 0
    /\ requests = 0
    /\ polled = <<>>
    /\ timeout_s \in 0..MaxTimeout
    /\ poll_every_s \in 0..1
    /\ uploads = 1
    /\ token = "token"

\* time.sleep(initial_wait_s); start = time.time()
InitialWait(initial_wait_s) ==
    /\ pollPc = "wait"
    /\ now + initial_wait_s <= MaxTime
    /\ now' = now + initial_wait_s
    /\ start' = now'
    /\ pollPc' = "request"
    /\ UNCHANGED <<checked, requests, polled, timeout_s, poll_every_s, outsidePoll>>

\* requests.get, raise_for_status, resp.json() and the checks on the payload.
Poll(p, took) ==
    /\ pollPc = "request"
    /\ requests < MaxRequests
    /\ now + took <= MaxTime
    /\ requests' = requests + 1
    /\ now' = now + took
    /\ checked' = now'
    /\ polled' = Append(polled, p)
    /\ pollPc' = PollDecision(p, now' - start, timeout_s)
    /\ UNCHANGED <<start, timeout_s, poll_every_s, outsidePoll>>

\* The GET fails or raise_for_status raises: the exception leaves the poller.
PollRaises(took) ==
    /\ pollPc = "request"
    /\ requests < MaxRequests
    /\ now + took <= MaxTime
    /\ requests' = requests + 1
    /\ now' = now + took
    /\ pollPc' = "http_error"
    /\ UNCHANGED <<start, checked, polled, timeout_s, poll_every_s, outsidePoll>>

\* time.sleep(poll_every_s)
Sleep(over) ==
    /\ pollPc = "sleep"
    /\ now + poll_every_s + over <= MaxTime
    /\ now' = now + poll_every_s + over
    /\ pollPc' = "request"
    /\ UNCHANGED <<start, checked, requests, polled, timeout_s, poll_every_s, outsidePoll>>

NextPoll ==
    \/ \E initial_wait_s \in 0..1 : InitialWait(initial_wait_s)
    \/ \E p \in Payloads, took \in 0..1 : Poll(p, took)
    \/ \E took \in 0..1 : PollRaises(took)
    \/ \E over \in 0..1 : Sleep(over)

SpecPoll == InitPoll /\ [][NextPoll]_vars

(***************************************************************************)
(* receipt.py's main: tabscanner_process, then tabscanner_poll_result; and *)
(* the programs of the repository that call an external service, side by   *)
(* side: the conversation loop (the model) and receipt.py (Tabscanner).    *)
(***************************************************************************)
Tokens == {"absent", "", "token"}   \* payload["token"], if any

Response(success, tok) == [success |-> success, token |-> tok]
Responses == {Response(su, tok) : su \in SuccessFields, tok \in Tokens}

\* The checks of tabscanner_process on the payload of its POST: RuntimeError
\* for a failed process, RuntimeError for a missing token, or the token.
ProcessDecision(p) ==
    IF ~SuccessOrTrue(p) /\ p.token = "absent" THEN "process_failed"
    ELSE IF p.token \in {"absent", ""} THEN "no_token"
    ELSE "wait"

\* requests.post, raise_for_status, resp.json() and the checks; with a token
\* main goes on to tabscanner_poll_result.
Upload(p) ==
    /\ pollPc = "upload"
    /\ uploads' = uploads + 1
    /\ pollPc' = ProcessDecision(p)
    /\ token' = IF pollPc' = "wait" THEN p.token ELSE token
    /\ UNCHANGED <<pollVarsButPc, outsideReceipt>>

\* The POST fails or raise_for_status raises: the exception leaves
\* tabscanner_process and main.
UploadRaises ==
    /\ pollPc = "upload"
    /\ uploads' = uploads + 1
    /\ pollPc' = "upload_http_error"
    /\ UNCHANGED <<token, pollVarsButPc, outsideReceipt>>

InitExternal ==
    /\ LoopEmpty
    /\ MAX_ITERATIONS = 10
    /\ OPENAI_API_KEY = "sk-test"
    /\ CalcIdle
    /\ StreamIdle
    /\ ConcIdle
    /\ ToolIdle
    /\ now = 0 /\ start = 0 /\ checked = 0 /\ requests = 0 /\ polled = <<>>
    /\ uploads = 0 /\ token = ""
    /\ \/ pc = "input" /\ pollPc = "idle" /\ timeout_s = 0 /\ poll_every_s = 0
       \/ pc = "none" /\ pollPc = "upload" /\ timeout_s \in 0..MaxTimeout /\ poll_every_s \in 0..1

NextExternal ==
    \/ \E user_input \in UserInputs : ReadInput(user_input)
    \/ \E asked \in SeqsUpTo(ToolRequests, MaxToolCalls) : CallModel(asked)
    \/ ModelFails
    \/ ToolsNode
    \/ UpdateHistory
    \/ ReportError
    \/ Quit
    \/ \E p \in Responses : Upload(p)
    \/ UploadRaises
    \/ \E initial_wait_s \in 0..1 : InitialWait(initial_wait_s)
    \/ \E p \in Payloads, took \in 0..1 : Poll(p, took)
    \/ \E took \in 0..1 : PollRaises(took)
    \/ \E over \in 0..1 : Sleep(over)

SpecExternal == InitExternal /\ [][NextExternal]_vars

(***************************************************************************)
(* Agent.stream (src/agent.py), called without a history as                *)
(* streaming_example does.  stream is a generator function: calling it     *)
(* runs none of its body, and each next() runs the body up to the next     *)
(* yield.  graph.stream yields, after each node, that node's update.       *)
(***************************************************************************)
Update(node, messages) == [node |-> node, messages |-> messages]

InitStream ==
    /\ pc = "streaming"
    /\ LoopEmpty
    /\ MAX_ITERATIONS = 10
    /\ OPENAI_API_KEY = "sk-test"
    /\ CalcIdle
    /\ PollIdle
    /\ StreamIdle
    /\ ConcIdle
    /\ ToolIdle

StreamPcs == {"streaming", "created", "yielded_agent", "yielded_tools", "exhausted", "stream_raised"}

\* agent.stream(user_input): a new generator, whatever became of the one
\* before; the caller keeps only the new one.
StreamCall(user_input) ==
    /\ pc \in StreamPcs
    /\ streams < MaxStreams
    /\ streams' = streams + 1
    /\ streamInput' = user_input
    /\ yielded' = <<>>
    /\ state' = <<>>
    /\ pc' = "created"
    /\ UNCHANGED <<conversation_history, given, nextId, turn, modelCalls, toolCalls, rounds, error,
                   MAX_ITERATIONS, OPENAI_API_KEY, inputs, failures>>
    /\ UNCHANGED outsideStream

\* The state the agent node is entered with: on the first next() the body of
\* stream up to graph.stream(initial_state), later the state of the graph.
StreamEntered ==
    IF pc = "created"
    THEN add_messages(<<>>, RunMessages(<<>>, HumanMessage(nextId, streamInput)))
    ELSE state

StreamEnteredIds == IF pc = "created" THEN 1 ELSE 0

\* next() when the agent node is due: the model's reply is added and yielded.
StreamAgent(asked) ==
    /\ pc \in {"created", "yielded_tools"}
    /\ modelCalls < MaxModelCalls
    /\ Len(asked) <= MaxToolCalls - toolCalls
    /\ LET id == nextId + StreamEnteredIds
           tool_calls == [i \in 1..Len(asked) |-> ToolCall(id + i, asked[i].name, asked[i].args)]
           response == AIMessage(id, IF asked = <<>> THEN Text("answer") ELSE <<>>, tool_calls)
       IN /\ state' = add_messages(StreamEntered, <<response>>)
          /\ yielded' = Append(yielded, Update("agent", <<response>>))
          /\ nextId' = id + Len(asked) + 1
    /\ modelCalls' = modelCalls + 1
    /\ toolCalls' = toolCalls + Len(asked)
    /\ pc' = "yielded_agent"
    /\ UNCHANGED <<conversation_history, given, turn, rounds, error, MAX_ITERATIONS, OPENAI_API_KEY, inputs, failures>>
    /\ UNCHANGED <<streams, streamInput>>
    /\ UNCHANGED outsideStream

\* next() when the agent node is due and the model invocation raises: the
\* exception leaves the generator, which is finished by it.
StreamModelFails ==
    /\ pc \in {"created", "yielded_tools"}
    /\ modelCalls < MaxModelCalls
    /\ modelCalls' = modelCalls + 1
    /\ state' = StreamEntered
    /\ nextId' = nextId + StreamEnteredIds
    /\ pc' = "stream_raised"
    /\ error' = "model"
    /\ UNCHANGED <<conversation_history, given, turn, toolCalls, rounds, MAX_ITERATIONS, OPENAI_API_KEY, inputs>>
    /\ failures' = failures + 1
    /\ UNCHANGED streamVars
    /\ UNCHANGED outsideStream

\* next() after an agent update that asks for tools: the tools node runs and
\* its messages are yielded.
StreamTools ==
    /\ pc = "yielded_agent"
    /\ _should_continue(state) = "continue"
    /\ LET calls == state[Len(state)].tool_calls
           outputs == ToolNodeOutputs(calls, nextId)
           messages == [i \in 1..Len(outputs) |-> outputs[i].msg]
       IN IF \E i \in 1..Len(outputs) : outputs[i].raised
          THEN /\ pc' = "stream_raised"
               /\ error' = "tool"
               /\ failures' = failures + 1
               /\ UNCHANGED <<state, nextId, rounds, yielded>>
          ELSE /\ state' = add_messages(state, messages)
               /\ yielded' = Append(yielded, Update("tools", messages))
               /\ nextId' = nextId + Len(calls)
               /\ rounds' = rounds + 1
               /\ pc' = "yielded_tools"
               /\ UNCHANGED <<error, failures>>
    /\ UNCHANGED <<conversation_history, given, turn, modelCalls, toolCalls, MAX_ITERATIONS, OPENAI_API_KEY, inputs>>
    /\ UNCHANGED <<streams, streamInput>>
    /\ UNCHANGED outsideStream

\* next() after an agent update that asks for nothing: the graph is at END,
\* the for loop of stream ends and the generator is exhausted.
StreamEnds ==
    /\ pc = "yielded_agent"
    /\ _should_continue(state) = "end"
    /\ pc' = "exhausted"
    /\ UNCHANGED <<conversation_history, given, state, nextId, turn, modelCalls, toolCalls, rounds,
                   error, MAX_ITERATIONS, OPENAI_API_KEY, inputs, failures>>
    /\ UNCHANGED streamVars
    /\ UNCHANGED outsideStream

NextStream ==
    \/ \E user_input \in UserInputs : StreamCall(user_input)
    \/ \E asked \in SeqsUpTo(ToolRequests, MaxToolCalls) : StreamAgent(asked)
    \/ StreamModelFails
    \/ StreamTools
    \/ StreamEnds

SpecStream == InitStream /\ [][NextStream]_vars

(***************************************************************************)
(* Two simultaneous calls of Agent.run / Agent.arun on one Agent           *)
(* (src/agent.py).  The Agent holds the tools, the model and the compiled  *)
(* graph, none of which a call writes; a call's own data are the list      *)
(* `messages` and the state of its graph run.  Lists are objects: two      *)
(* names may be bound to one list.                                         *)
(***************************************************************************)
Sessions == {1, 2}

Caller(s) == <<"caller", s>>     \* the list call s was given as conversation_history
Fresh(s) == <<"fresh", s>>       \* the list `[]` of call s makes
Unbound == <<"none", 0>>

SessionInput(s) == IF s = 1 THEN "What time is it right now?" ELSE "Calculate the square root of 144"

\* A history a caller may hold: one earlier exchange, with ids of its own.
PriorHistory(s) ==
    <<HumanMessage(2 * s - 1, "Tell me about Python programming"),
      AIMessage(2 * s, Text("answer"), <<>>)>>

FirstId == 2 * Cardinality(Sessions) + 1

\* messages = conversation_history or []
OrShared(s) == IF lists[Caller(s)] # <<>> THEN Caller(s) ELSE Fresh(1)

OrFresh(s) == IF lists[Caller(s)] # <<>> THEN Caller(s) ELSE Fresh(s)

InitConc ==
    /\ pc = "none"
    /\ conversation_history = <<>> /\ given = <<>> /\ state = <<>>
    /\ nextId = FirstId
    /\ turn = 0 /\ modelCalls = 0 /\ toolCalls = 0 /\ rounds = 0
    /\ error = "" /\ inputs = <<>> /\ failures = 0
    /\ MAX_ITERATIONS = 10
    /\ OPENAI_API_KEY = "sk-test"
    /\ CalcIdle
    /\ PollIdle
    /\ StreamIdle
    /\ ToolIdle
    /\ histories \in [Sessions -> UNION {{<<>>, PriorHistory(s)} : s \in Sessions}]
    /\ \A s \in Sessions : histories[s] \in {<<>>, PriorHistory(s)}
    /\ lists = [l \in {Caller(s) : s \in Sessions} \cup {Fresh(s) : s \in Sessions} |->
                  IF l[1] = "caller" THEN histories[l[2]] ELSE <<>>]
    /\ ref = [s \in Sessions |-> Unbound]
    /\ spc = [s \in Sessions |-> "called"]
    /\ sstate = [s \in Sessions |-> <<>>]
    /\ replies = [s \in Sessions |-> <<>>]

ConcFrame == UNCHANGED <<pc, conversation_history, given, state, turn, rounds, error, inputs,
                         MAX_ITERATIONS, OPENAI_API_KEY, histories, outsideConc>>

\* messages = conversation_history or []
Bind(s) ==
    /\ spc[s] = "called"
    /\ ref' = [ref EXCEPT ![s] = OrFresh(s)]
    /\ spc' = [spc EXCEPT ![s] = "bound"]
    /\ UNCHANGED <<lists, sstate, replies, nextId, modelCalls, toolCalls, failures>>
    /\ ConcFrame

\* messages.append(HumanMessage(...)); the graph is invoked on the list.
Enter(s) ==
    /\ spc[s] = "bound"
    /\ lists' = [lists EXCEPT ![ref[s]] = Append(@, HumanMessage(nextId, SessionInput(s)))]
    /\ sstate' = [sstate EXCEPT ![s] = add_messages(<<>>, lists'[ref[s]])]
    /\ nextId' = nextId + 1
    /\ spc' = [spc EXCEPT ![s] = "agent"]
    /\ UNCHANGED <<ref, replies, modelCalls, toolCalls, failures>>
    /\ ConcFrame

\* The agent node of call s.
SessionModel(s, asked) ==
    /\ spc[s] = "agent"
    /\ modelCalls < MaxModelCalls
    /\ Len(asked) <= MaxToolCalls - toolCalls
    /\ LET tool_calls == [i \in 1..Len(asked) |-> ToolCall(nextId + i, asked[i].name, asked[i].args)]
           response == AIMessage(nextId, IF asked = <<>> THEN Text("answer") ELSE <<>>, tool_calls)
           messages == add_messages(sstate[s], <<response>>)
       IN /\ sstate' = [sstate EXCEPT ![s] = messages]
          /\ spc' = [spc EXCEPT ![s] = IF _should_continue(messages) = "continue"
                                       THEN "tools" ELSE "returned"]
    /\ replies' = [replies EXCEPT ![s] = Append(@, asked)]
    /\ nextId' = nextId + Len(asked) + 1
    /\ modelCalls' = modelCalls + 1
    /\ toolCalls' = toolCalls + Len(asked)
    /\ UNCHANGED <<lists, ref, failures>>
    /\ ConcFrame

SessionModelFails(s) ==
    /\ spc[s] = "agent"
    /\ modelCalls < MaxModelCalls
    /\ modelCalls' = modelCalls + 1
    /\ failures' = failures + 1
    /\ spc' = [spc EXCEPT ![s] = "raised"]
    /\ UNCHANGED <<lists, ref, sstate, replies, nextId, toolCalls>>
    /\ ConcFrame

\* The tools node of call s.
SessionTools(s) ==
    /\ spc[s] = "tools"
    /\ LET calls == Last(sstate[s]).tool_calls
           outputs == ToolNodeOutputs(calls, nextId)
       IN IF \E i \in 1..Len(outputs) : outputs[i].raised
          THEN /\ spc' = [spc EXCEPT ![s] = "raised"]
               /\ failures' = failures + 1
               /\ UNCHANGED <<sstate, nextId>>
          ELSE /\ sstate' = [sstate EXCEPT ![s] =
                                add_messages(@, [i \in 1..Len(outputs) |-> outputs[i].msg])]
               /\ nextId' = nextId + Len(calls)
               /\ spc' = [spc EXCEPT ![s] = "agent"]
               /\ UNCHANGED failures
    /\ UNCHANGED <<lists, ref, replies, modelCalls, toolCalls>>
    /\ ConcFrame

\* The tool calls the model asks for here: one that succeeds, one that comes
\* back as an error string.
SessionRequests ==
    { r \in ToolRequests : r.name \in {"get_current_time", "text_analysis"} }

NextConc ==
    \/ \E s \in Sessions : Bind(s)
    \/ \E s \in Sessions : Enter(s)
    \/ \E s \in Sessions, asked \in SeqsUpTo(SessionRequests, MaxToolCalls) : SessionModel(s, asked)
    \/ \E s \in Sessions : SessionModelFails(s)
    \/ \E s \in Sessions : SessionTools(s)

SpecConc == InitConc /\ [][NextConc]_vars

(***************************************************************************)
(* search_knowledge_base on its own: one query in, one string out.         *)
(***************************************************************************)
\* The spellings of a word in upper and lower case.
RECURSIVE Spellings(_)
Spellings(word) ==
    IF word = <<>> THEN {<<>>}
    ELSE LET c == Head(word)
             cases == {c} \cup {u \in DOMAIN Lowercase : Lowercase[u] = c}
         IN {<<x>> \o rest : x \in cases, rest \in Spellings(Tail(word))}

Keys == {knowledge_base[i][1] : i \in 1..Len(knowledge_base)}

\* Words around which the queries are built: every spelling of every key, a
\* key after another, and words that only come close to a key.
QueryWords ==
    UNION {Spellings(key) : key \in Keys}
    \cup {a \o p : a \in Spellings(<<"a", "i">>), p \in {<<"p", "y", "t", "h", "o", "n">>, <<"P", "Y", "T", "H", "O", "N">>}}
    \cup {<<>>, <<"z", "z", "z">>, <<"p", "y", "t", "o", "n">>, <<"P", "y", " ", "t", "h", "o", "n">>,
          <<"l", "a", "n", "g">>, <<"g", "r", "a", "p", "h">>, <<"a">>, <<"I">>}

PadChars == {" ", "a", "I", "?"}

Queries == {l \o w \o r : l \in SeqsUpTo(PadChars, MaxPad), w \in QueryWords,
                           r \in SeqsUpTo(PadChars, MaxPad)}

InitSearch ==
    /\ pc = "none" /\ LoopEmpty
    /\ MAX_ITERATIONS = 10
    /\ OPENAI_API_KEY = "sk-test"
    /\ CalcIdle /\ PollIdle /\ StreamIdle /\ ConcIdle
    /\ toolPc = "called"
    /\ query \in Queries
    /\ text = <<>>
    /\ toolResult = NoResult

Search ==
    /\ toolPc = "called"
    /\ toolResult' = search_knowledge_base(query)
    /\ toolPc' = "done"
    /\ UNCHANGED <<query, text, outsideTool>>

NextSearch == Search

SpecSearch == InitSearch /\ [][NextSearch]_vars

(***************************************************************************)
(* text_analysis on its own: one text in, one report out.                  *)
(***************************************************************************)
TextChars == {"a", " ", "\t", ".", "!", "?"}

SampleText == <<"H", "i", " ", "t", "h", "e", "r", "e", ".", " ", "G", "o", "!">>

Texts == SeqsUpTo(TextChars, MaxTextLen) \cup {SampleText}

InitText ==
    /\ pc = "none" /\ LoopEmpty
    /\ MAX_ITERATIONS = 10
    /\ OPENAI_API_KEY = "sk-test"
    /\ CalcIdle /\ PollIdle /\ StreamIdle /\ ConcIdle
    /\ toolPc = "called"
    /\ query = <<>>
    /\ text \in Texts
    /\ toolResult = NoResult

Analyze ==
    /\ toolPc = "called"
    /\ toolResult' = text_analysis(text)
    /\ toolPc' = "done"
    /\ UNCHANGED <<query, text, outsideTool>>

NextText == Analyze

SpecText == InitText /\ [][NextText]_vars

(***************************************************************************)
(* main's examples loop (src/main.py): the four examples, each run with    *)
(* the list main made before the loop, which main never reassigns; an      *)
(* exception of run is not handled here and ends main.                     *)
(***************************************************************************)
examples ==
    <<"What time is it right now?",
      "Calculate the square root of 144",
      "Tell me about Python programming",
      "Analyze this text: 'LangGraph makes building agentic AI systems simple and powerful!'">>

InitExamples ==
    /\ pc = "examples" /\ LoopEmpty
    /\ MAX_ITERATIONS = 10
    /\ OPENAI_API_KEY = "sk-test"
    /\ CalcIdle /\ PollIdle /\ StreamIdle /\ ConcIdle /\ ToolIdle

\* result = agent.run(user_input, conversation_history), for the next example.
RunExample ==
    /\ pc = "examples"
    /\ turn < Len(examples)
    /\ LET user_input == examples[turn + 1]
           human == HumanMessage(nextId, user_input)
           messages == RunMessages(conversation_history, human)
       IN /\ given' = conversation_history
          /\ conversation_history' =
                IF IsCallersList(conversation_history) THEN messages ELSE conversation_history
          /\ state' = add_messages(<<>>, messages)
          /\ inputs' = Append(inputs, user_input)
    /\ nextId' = nextId + 1
    /\ turn' = turn + 1
    /\ rounds' = 0
    /\ pc' = "agent"
    /\ UNCHANGED <<modelCalls, toolCalls, error, MAX_ITERATIONS, OPENAI_API_KEY, failures>>
    /\ UNCHANGED outsideLoop

\* The reply is printed; the line that would keep result["messages"] is a
\* comment.
PrintExample ==
    /\ pc = "returned"
    /\ pc' = "examples"
    /\ UNCHANGED <<conversation_history, given, state, nextId, turn, modelCalls, toolCalls, rounds,
                   error, MAX_ITERATIONS, OPENAI_API_KEY, inputs, failures>>
    /\ UNCHANGED outsideLoop

\* run raised: nothing in the examples loop handles it.
ExampleRaises ==
    /\ pc = "raised"
    /\ pc' = "crashed"
    /\ UNCHANGED <<conversation_history, given, state, nextId, turn, modelCalls, toolCalls, rounds,
                   error, MAX_ITERATIONS, OPENAI_API_KEY, inputs, failures>>
    /\ UNCHANGED outsideLoop

NextExamples ==
    \/ RunExample
    \/ \E asked \in SeqsUpTo(ToolRequests, MaxToolCalls) : CallModel(asked)
    \/ ModelFails
    \/ ToolsNode
    \/ PrintExample
    \/ ExampleRaises

SpecExamples == InitExamples /\ [][NextExamples]_vars

(***************************************************************************)
(* Properties of the conversation loop (checked under Spec).               *)
(***************************************************************************)
IsPrefix(a, b) == Len(a) <= Len(b) /\ \A i \in 1..Len(a) : a[i] = b[i]

IsFinalReply(m) == m.type = "ai" /\ m.tool_calls = <<>>
IsToolRequest(m) == m.type = "ai" /\ m.tool_calls # <<>>

Running == pc \in {"agent", "tools"}

\* The positions of the model replies that ask for tools.
RequestsAt(messages) == {i \in 1..Len(messages) : IsToolRequest(messages[i])}

\* The reply at position i is followed by exactly one result per call, in order.
AnsweredInOrder(messages, i) ==
    LET calls == messages[i].tool_calls
        N == Len(calls)
    IN /\ Len(messages) >= i + N
       /\ \A j \in 1..N : /\ messages[i + j].type = "tool"
                          /\ messages[i + j].tool_call_id = calls[j].id
       /\ Len(messages) > i + N => messages[i + N + 1].type # "tool"

\* C1: a model reply with N >= 1 tool calls is followed in the history by
\* exactly N tool-result messages, one per call and in the order of the calls,
\* and the model is invoked again only after all N are there: while the reply
\* is the last message the loop is at the tools node, never at the model.
C1_ToolResultsInOrder ==
    \A i \in RequestsAt(state) :
        IF i = Len(state) THEN pc = "tools" ELSE AnsweredInOrder(state, i)

\* C1 witness: a reply with two calls, both answered, and the model invoked again.
C1_Witness ==
    \E i \in RequestsAt(state) :
        /\ Len(state[i].tool_calls) = 2
        /\ Len(state) >= i + 3
        /\ state[i + 3].type = "ai"

\* C2: the loop is at its end exactly when the last model reply carries no
\* tool calls: a run has returned only with such a reply last, is at the tools
\* node only with a reply that asks for tools last, and is at the model only
\* after a user message or tool results; the tools node always leads back to
\* the model, and a returned run executes no tool and invokes no model.
C2_Positions ==
    /\ pc = "returned" => IsFinalReply(Last(state))
    /\ pc = "tools" => IsToolRequest(Last(state))
    /\ pc = "agent" => Last(state).type \in {"human", "tool"}

C2_EndsOnPlainReply ==
    /\ []C2_Positions
    /\ [][pc = "tools" => pc' = "agent"]_vars
    /\ [][pc = "returned" => state' = state /\ modelCalls' = modelCalls /\ pc' = "input"]_vars

\* C2 witness: a run that went through the tools node and then returned.
C2_Witness == pc = "returned" /\ rounds >= 1

\* The history main passed in ends in a model reply with zero tool calls.
GivenEndsInFinalReply == given # <<>> /\ IsFinalReply(Last(given))

\* C3, as claimed: run on a history ending in a model reply with zero tool
\* calls returns that history unchanged.
C3_Original == (pc = "returned" /\ GivenEndsInFinalReply) => state = given

\* C3, amended: run on such a history returns it followed by the new user
\* message and at least one new model reply; the given history is a prefix of
\* the result and the model is invoked.
C3_Amended ==
    (pc = "returned" /\ GivenEndsInFinalReply) =>
        /\ IsPrefix(given, state)
        /\ Len(state) >= Len(given) + 2
        /\ state[Len(given) + 1].type = "human"
        /\ state[Len(given) + 2].type = "ai"

C3_Witness == pc = "returned" /\ GivenEndsInFinalReply

\* C4: a call of the loop leaves the list the caller supplied unchanged: while
\* the run is going on and when it has returned or raised, the caller's list
\* holds what it held when it was passed in.
C4_CallersListUnchanged ==
    pc \in {"agent", "tools", "returned", "raised"} => conversation_history = given

\* C5: the loop stops after at most MAX_ITERATIONS model/tool rounds.
C5_RoundsCapped == rounds <= MAX_ITERATIONS

\* A call whose execution fails: no such tool, arguments the tool rejects, or
\* an expression whose evaluation raises.
Faulty(call) ==
    \/ ~KnownTool(call)
    \/ ~ValidArgs(call)
    \/ call.name = "calculate" /\ ~Eval(call.args.expression).ok

IsErrorText(content) == content # <<>> /\ content[1] \in {"Error: ", ErrorPrefix}

\* C6: a fault in a tool never ends the loop with an error: no run raises
\* because of a tool, the tools node is never about to raise, and every
\* failed call is answered by a tool-result message carrying an error string.
C6_ToolFaultsBecomeMessages ==
    /\ error # "tool"
    /\ pc = "tools" =>
          LET outs == ToolNodeOutputs(Last(state).tool_calls, nextId)
          IN \A i \in 1..Len(outs) : ~outs[i].raised
    /\ \A i \in RequestsAt(state) :
          i < Len(state) =>
              \A j \in 1..Len(state[i].tool_calls) :
                  Faulty(state[i].tool_calls[j]) =>
                      /\ Len(state) >= i + j
                      /\ state[i + j].type = "tool"
                      /\ IsErrorText(state[i + j].content)

\* C6 witness: a failed calculate call was answered with calculate's error
\* string and the model was invoked again.
C6_Witness ==
    \E i \in 1..Len(state) :
        /\ state[i].type = "tool"
        /\ state[i].content[1] = ErrorPrefix
        /\ i < Len(state)
        /\ state[Len(state)].type = "ai"

\* C10: within a run the history only grows at its end: every step of a run
\* keeps the messages it had, in place, and the history passed in is a prefix
\* of the history at every point of the run and of the history returned.
C10_GivenIsPrefix == pc \in {"agent", "tools", "returned"} => IsPrefix(given, state)

C10_AppendOnly ==
    /\ []C10_GivenIsPrefix
    /\ [][Running => IsPrefix(state, state')]_vars

C10_Witness == pc = "returned" /\ given # <<>> /\ Len(state) >= Len(given) + 4

\* C11: with the credential absent (unset or empty) startup fails at once
\* with the ValueError that names the missing variable:
\* the session never gets past the import of config, so no Agent is
\* constructed, no input is read, no model is invoked and no tool is run, and
\* the failed startup is final (nothing is retried).
CredentialAbsent == OPENAI_API_KEY \in {"None", ""}

C11_NoCredentialNoStart ==
    CredentialAbsent =>
        /\ pc \in {"startup", "startup_failed"}
        /\ turn = 0 /\ modelCalls = 0 /\ toolCalls = 0 /\ state = <<>>
        /\ pc = "startup_failed" => error = MissingKeyError /\ ~ENABLED Next

C11_Witness == pc = "startup_failed" /\ OPENAI_API_KEY = "None"

(***************************************************************************)
(* Properties of calculate (checked under SpecCalc).                       *)
(***************************************************************************)
RECURSIVE NamesIn(_)
NamesIn(e) ==
    (IF e.k = "name" THEN {e.s} ELSE {})
        \cup UNION {NamesIn(e.args[i]) : i \in 1..Len(e.args)}

\* C7: an expression that references a name outside the whitelist runs
\* nothing outside the whitelist and yields the error string.
C7_WhitelistOnly ==
    (calcPc = "returned" /\ NamesIn(expression) \ Whitelist # {}) =>
        /\ calcResult.out[1] = ErrorPrefix
        /\ calcResult.ran \subseteq Whitelist

(***************************************************************************)
(* Properties of tabscanner_poll_result (checked under SpecPoll).          *)
(***************************************************************************)
Returnable(p) == p.status = "done" /\ SuccessOrTrue(p)
Failing(p) == ~Returnable(p) /\ (p.status = "failed" \/ SuccessIsFalse(p))
Terminal(p) == Returnable(p) \/ Failing(p)

Polling == pollPc \in {"sleep", "request"}

\* C8, as claimed: the poller goes on while the status is pending (until the
\* deadline), returns at the first payload whose status is done, and raises
\* the failure error at a payload whose status is failed, with no further
\* request.
C8_Original ==
    (polled # <<>> /\ pollPc # "http_error") =>
        LET p == Last(polled)
        IN /\ p.status = "pending" => pollPc \in {"sleep", "request", "timeout"}
           /\ p.status = "done" => pollPc = "returned"
           /\ p.status = "failed" => pollPc = "failed" /\ requests = Len(polled)

\* C8, amended: the poller goes on while the payload is neither returnable
\* nor failing (until the deadline); it returns at the first payload whose
\* status is done and whose success field is absent or true; it raises the
\* failure error at the first payload whose status is failed or whose success
\* field is false, with no further request.  For pending, pending, done it
\* returns after exactly three requests.
C8_Amended ==
    (polled # <<>> /\ pollPc # "http_error") =>
        LET p == Last(polled)
        IN /\ Returnable(p) <=> pollPc = "returned"
           /\ Failing(p) <=> pollPc = "failed"
           /\ ~Terminal(p) => pollPc \in {"sleep", "request", "timeout"}
           /\ ~Polling => requests = Len(polled)
           /\ \A i \in 1..(Len(polled) - 1) : ~Terminal(polled[i])
           /\ ( /\ Len(polled) >= 3
                /\ polled[1].status = "pending"
                /\ polled[2].status = "pending"
                /\ Returnable(polled[3]) ) => (pollPc = "returned" /\ requests = 3)

C8_Witness ==
    /\ pollPc = "returned"
    /\ Len(polled) = 3
    /\ polled[1].status = "pending"
    /\ polled[2].status = "pending"
    /\ polled[3].status = "done"

\* C9: the poller is bounded by timeout_s: it raises the timeout error only
\* at a payload that is not terminal with more than timeout_s elapsed since
\* its start, it goes on polling only while the elapsed time it last read is
\* within timeout_s, the number of requests is bounded by the timeout and
\* the re-poll interval, and the payload it returns has status done.
C9_BoundedByTimeout ==
    /\ pollPc = "timeout" => /\ checked - start > timeout_s
                             /\ ~Terminal(Last(polled))
    /\ pollPc = "failed" => Failing(Last(polled))
    /\ pollPc = "returned" => Last(polled).status = "done"
    /\ (Polling /\ polled # <<>>) => checked - start <= timeout_s
    /\ requests >= 2 => (requests - 2) * poll_every_s <= timeout_s

C9_Witness == pollPc = "timeout" /\ Len(polled) >= 2 /\ timeout_s >= 1

(***************************************************************************)
(* Properties of Agent.stream (checked under SpecStream).                  *)
(***************************************************************************)
RECURSIVE Flatten(_)
Flatten(updates) ==
    IF updates = <<>> THEN <<>> ELSE Head(updates).messages \o Flatten(Tail(updates))

\* The generator is between two of its items.
Suspended == pc \in {"yielded_agent", "yielded_tools"}

\* C12: stream is lazy, ordered, fresh per call and ends with the loop.
\* Calling stream executes nothing (no state, no model invocation, no tool
\* call, and nothing yielded until the first item is requested); the items
\* alternate agent update, tools update, starting with an agent update; the
\* messages of the items, in order, are exactly what the loop added to the
\* state after the user message of this call; an exhausted generator's last
\* item is the update of a model reply with no tool calls, and after such an
\* item the generator yields nothing more.
C12_Items ==
    /\ pc = "created" => yielded = <<>> /\ state = <<>>
    /\ \A i \in 1..Len(yielded) : yielded[i].node = IF i % 2 = 1 THEN "agent" ELSE "tools"
    /\ (Suspended \/ pc = "exhausted") =>
          /\ state = <<HumanMessage(state[1].id, streamInput)>> \o Flatten(yielded)
          /\ Last(yielded).node = (IF pc = "yielded_tools" THEN "tools" ELSE "agent")
    /\ pc = "exhausted" =>
          /\ Len(Last(yielded).messages) = 1
          /\ IsFinalReply(Last(yielded).messages[1])

C12_Steps ==
    /\ pc' = "created" =>
          modelCalls' = modelCalls /\ toolCalls' = toolCalls /\ nextId' = nextId
    /\ (pc = "yielded_agent" /\ IsFinalReply(Last(state)) /\ streams' = streams) =>
          pc' = "exhausted" /\ yielded' = yielded /\ state' = state
    /\ (Suspended /\ ~IsFinalReply(Last(state)) /\ streams' = streams) =>
          pc' # "exhausted"

C12_StreamLazyOrdered == []C12_Items /\ [][C12_Steps]_vars

\* C12 witness: a second call of stream, made while the first generator was
\* suspended, ran a model reply, a tools update and the final reply to its end.
C12_Witness == pc = "exhausted" /\ streams = 2 /\ Len(yielded) = 3

(***************************************************************************)
(* Properties of the calls of external services (checked under             *)
(* SpecExternal).                                                          *)
(***************************************************************************)
UploadFailed == pollPc \in {"upload_http_error", "process_failed", "no_token"}

\* C13: a failed call of an external service is not retried and reaches the
\* caller.  The step in which a model invocation fails leaves run raising the
\* model's error, with the state as it was and no tool run; from there the
\* only step is main's handler, which invokes nothing.  A failed upload ends
\* tabscanner_process after its one POST, with no GET sent; a failed poll
\* request ends tabscanner_poll_result at that request, every earlier request
\* having been answered; and nothing follows either failure.
C13_Raised ==
    /\ pc = "raised" => error \in {"model", "tool"}
    /\ error = "model" => pc = "raised" /\ failures >= 1
    /\ UploadFailed => uploads = 1 /\ requests = 0 /\ token = ""
    /\ pollPc = "http_error" => requests = Len(polled) + 1 /\ uploads = 1
    /\ (UploadFailed \/ pollPc = "http_error") => ~ENABLED NextExternal

C13_Steps ==
    /\ (failures' > failures /\ modelCalls' > modelCalls) =>
          /\ modelCalls' = modelCalls + 1
          /\ pc' = "raised" /\ error' = "model"
          /\ state' = state /\ toolCalls' = toolCalls /\ nextId' = nextId
    /\ pc = "raised" =>
          /\ pc' = "input"
          /\ modelCalls' = modelCalls /\ toolCalls' = toolCalls /\ state' = state
    /\ pollPc' = "http_error" => requests' = requests + 1 /\ polled' = polled
    /\ uploads' # uploads => uploads = 0

C13_FailuresNotRetried == []C13_Raised /\ [][C13_Steps]_vars

\* C13 witnesses: a run that raised at its second model invocation, after a
\* round of tools; a poll request that failed after an answered one.
C13_Witness == pc = "raised" /\ error = "model" /\ rounds = 1

C13_WitnessPoll == pollPc = "http_error" /\ requests = 2

(***************************************************************************)
(* Properties of simultaneous calls (checked under SpecConc).              *)
(***************************************************************************)
\* The graph run of one call on its own, from the state it is entered with,
\* given the tool requests of the model's replies.
RECURSIVE AloneLoop(_, _, _)
AloneLoop(messages, asks, id) ==
    IF asks = <<>> THEN messages
    ELSE LET asked == Head(asks)
             tool_calls == [i \in 1..Len(asked) |-> ToolCall(id + i, asked[i].name, asked[i].args)]
             response == AIMessage(id, IF asked = <<>> THEN Text("answer") ELSE <<>>, tool_calls)
             replied == add_messages(messages, <<response>>)
             outputs == ToolNodeOutputs(tool_calls, id + Len(asked) + 1)
         IN IF _should_continue(replied) = "end" THEN replied
            ELSE AloneLoop(add_messages(replied, [i \in 1..Len(outputs) |-> outputs[i].msg]),
                           Tail(asks), id + 2 * Len(asked) + 1)

Alone(history, user_input, asks) ==
    AloneLoop(add_messages(<<>>, RunMessages(history, HumanMessage(FirstId, user_input))),
              asks, FirstId + 1)

\* A message without its ids (ids are drawn as the calls interleave).
Anonymous(m) ==
    [m EXCEPT !.id = 0, !.tool_call_id = 0,
              !.tool_calls = [i \in 1..Len(m.tool_calls) |-> [m.tool_calls[i] EXCEPT !.id = 0]]]

Anonymously(messages) == [i \in 1..Len(messages) |-> Anonymous(messages[i])]

Ids(messages) == {messages[i].id : i \in 1..Len(messages)}

\* The tool-result messages of a state answer its tool calls, id by id.
Linked(messages) ==
    \A i \in 1..Len(messages) :
        messages[i].type = "tool" =>
            \E j \in 1..(i - 1) : \E k \in 1..Len(messages[j].tool_calls) :
                messages[j].tool_calls[k].id = messages[i].tool_call_id

\* C14: two simultaneous calls given distinct lists do not interfere.  In
\* every interleaving a call that returns returns what it returns alone with
\* the same model replies (message for message, ids aside), its tool results
\* answering its own requests; the two states share no message; and a caller's
\* list holds that caller's history and at most that call's user message.
C14_SessionsIndependent ==
    /\ \A s \in Sessions :
          /\ spc[s] = "returned" =>
                /\ Anonymously(sstate[s])
                     = Anonymously(Alone(histories[s], SessionInput(s), replies[s]))
                /\ Linked(sstate[s])
          /\ \/ lists[Caller(s)] = histories[s]
             \/ /\ histories[s] # <<>>
                /\ lists[Caller(s)] =
                     Append(histories[s], HumanMessage(Last(lists[Caller(s)]).id, SessionInput(s)))
    /\ \A s, t \in Sessions : s # t => Ids(sstate[s]) \cap Ids(sstate[t]) = {}

\* C14 witness: both calls returned, one given a history and one not, one
\* after a round of tools, and their steps interleaved (each has a message
\* older than a message of the other).
C14_Witness ==
    /\ \A s \in Sessions : spc[s] = "returned"
    /\ histories[1] # <<>> /\ histories[2] = <<>>
    /\ Len(replies[2]) = 2
    /\ Last(sstate[1]).id > sstate[2][1].id
    /\ Last(sstate[2]).id > Last(sstate[1]).id
    /\ sstate[2][1].id < Last(histories[1] \o sstate[1]).id

(***************************************************************************)
(* Properties of search_knowledge_base (checked under SpecSearch).         *)
(***************************************************************************)
\* key occurs in s, told by the slices of s.
OccursIn(key, s) ==
    \E i \in 1..Len(s) : i + Len(key) - 1 <= Len(s) /\ SubSeq(s, i, i + Len(key) - 1) = key

FactOf(key) == Text(knowledge_base[CHOOSE i \in 1..Len(knowledge_base) : knowledge_base[i][1] = key][2])

NotFound(q) == <<NotFoundPrefix>> \o q

\* C15: search_knowledge_base never raises; it answers with the not-found
\* sentinel, which carries the query as it was given, exactly when no key
\* occurs in the lower-cased query, and otherwise with the fact of a key that
\* occurs in it; when "python" occurs in it, with the Python fact.
C15_SearchBySubstring ==
    toolPc = "done" =>
        LET found == {key \in Keys : OccursIn(key, lower(query))}
        IN /\ ~toolResult.raised
           /\ toolResult.out = NotFound(query) <=> found = {}
           /\ found # {} => \E key \in found : toolResult.out = FactOf(key)
           /\ OccursIn(<<"p", "y", "t", "h", "o", "n">>, lower(query)) =>
                  toolResult.out = Text(PythonFact)

\* C15 witness: a query with "python" in mixed case after "AI", answered with
\* the Python fact.
C15_Witness ==
    /\ toolPc = "done"
    /\ query = <<"A", "I", "P", "Y", "T", "H", "O", "N">>
    /\ toolResult.out = Text(PythonFact)

(***************************************************************************)
(* Properties of text_analysis (checked under SpecText).                   *)
(***************************************************************************)
\* The words of a text: what is left when it is cut at its whitespace.
RECURSIVE WordsOf(_, _)
WordsOf(t, word) ==
    IF t = <<>> THEN (IF word = <<>> THEN <<>> ELSE <<word>>)
    ELSE IF Head(t) \in Whitespace
         THEN (IF word = <<>> THEN <<>> ELSE <<word>>) \o WordsOf(Tail(t), <<>>)
         ELSE WordsOf(Tail(t), Append(word, Head(t)))

RECURSIVE Occurrences(_, _)
Occurrences(t, c) ==
    IF t = <<>> THEN 0 ELSE (IF Head(t) = c THEN 1 ELSE 0) + Occurrences(Tail(t), c)

\* The lines of the report: label, then value.
Reported(label) ==
    LET out == toolResult.out
        at == CHOOSE i \in 1..Len(out) : out[i] = label
    IN out[at + 1]

\* C16: text_analysis never raises and reports, for every text, the number of
\* its whitespace-delimited words, its length, its length without the spaces
\* and the number of its '.', '!' and '?'; 3 words and 2 sentences for
\* "Hi there. Go!"; and for a text with no words an average word length of
\* its characters other than spaces over 1, to two decimals.
C16_TextStatistics ==
    toolPc = "done" =>
        LET words == WordsOf(text, <<>>)
            out == toolResult.out
        IN /\ ~toolResult.raised
           /\ Reported("\n- Word count: ") = ToString(Len(words))
           /\ Reported("\n- Character count: ") = ToString(Len(text))
           /\ Reported("\n- Characters (no spaces): ")
                = ToString(Len(text) - Occurrences(text, " "))
           /\ Reported("\n- Estimated sentences: ")
                = ToString(Occurrences(text, ".") + Occurrences(text, "!") + Occurrences(text, "?"))
           /\ text = SampleText =>
                 /\ Reported("\n- Word count: ") = "3"
                 /\ Reported("\n- Estimated sentences: ") = "2"
           /\ words = <<>> =>
                 SubSeq(out, Len(out) - 5, Len(out))
                   = <<"\n- Average word length: ", ToString(Len(text) - Occurrences(text, " ")),
                       ".", "0", "0", " characters">>

\* C16 witnesses: the sample text; a text with no words that is not empty.
C16_Witness ==
    /\ toolPc = "done" /\ text = SampleText
    /\ Reported("\n- Word count: ") = "3"

C16_WitnessNoWords ==
    /\ toolPc = "done" /\ text = <<"\t", " ", "\t">>
    /\ Reported("\n- Word count: ") = "0"
    /\ SubSeq(toolResult.out, 11, 14) = <<"2", ".", "0", "0">>

(***************************************************************************)
(* Properties of main's interactive loop across turns (checked under Spec). *)
(***************************************************************************)
RECURSIVE Select(_, _)
Select(messages, type) ==
    IF messages = <<>> THEN <<>>
    ELSE (IF Head(messages).type = type THEN <<Head(messages)>> ELSE <<>>)
         \o Select(Tail(messages), type)

\* history holds the turns of the user inputs ins, whole and in order: its
\* user messages are those inputs, each followed by at least one model
\* message, the last message of a turn being a reply with no tool calls, every
\* tool call of a model message answered once, and no message there twice.
HoldsTurns(history, ins) ==
    /\ [i \in 1..Len(Select(history, "human")) |-> Select(history, "human")[i].content]
         = [i \in 1..Len(ins) |-> Text(ins[i])]
    /\ \A i \in 1..Len(history) :
          /\ history[i].type = "human" => i < Len(history) /\ history[i + 1].type = "ai"
          /\ (i = Len(history) \/ history[i + 1].type = "human") => IsFinalReply(history[i])
          /\ \A k \in 1..Len(history[i].tool_calls) :
                Cardinality({j \in (i + 1)..Len(history) :
                    history[j].type = "tool" /\ history[j].tool_call_id = history[i].tool_calls[k].id}) = 1
    /\ \A i, j \in 1..Len(history) : i < j => history[i].id < history[j].id

\* C17: while no turn has failed, the history main holds at its prompt, and
\* so the history it passes to the next turn, holds all the turns so far,
\* whole and in order: as many user messages as turns, as many model messages
\* as model invocations, as many tool results as tool calls.
C17_HistoryHoldsAllTurns ==
    failures = 0 =>
        /\ pc = "input" =>
              /\ HoldsTurns(conversation_history, inputs)
              /\ Len(inputs) = turn
              /\ Len(Select(conversation_history, "ai")) = modelCalls
              /\ Len(Select(conversation_history, "tool")) = toolCalls
              /\ Len(conversation_history) = turn + modelCalls + toolCalls
        /\ Running =>
              /\ HoldsTurns(given, SubSeq(inputs, 1, turn - 1))
              /\ state[Len(given) + 1] = HumanMessage(state[Len(given) + 1].id, inputs[turn])

\* C17 witness: the second turn is being run on the history of a first turn
\* that went through a round of tools.
C17_Witness ==
    /\ failures = 0 /\ pc = "agent" /\ turn = 2 /\ rounds = 0
    /\ Len(given) >= 4

\* C18: a turn that raises is reported and the loop goes on, with the
\* history not rolled back.  While run is raising, a history that was empty
\* when passed in is still empty and one that was not has gained the failed
\* turn's user message; main's handler leaves the list as it is and returns to
\* the prompt; and the next turn starts the graph on that list plus its own
\* user message, so that the failed turn's user message and the new one
\* reach the model one after the other.
C18_WhileRaising ==
    pc = "raised" =>
        /\ given = <<>> => conversation_history = <<>>
        /\ given # <<>> =>
              /\ conversation_history = Append(given, Last(conversation_history))
              /\ Last(conversation_history)
                   = HumanMessage(Last(conversation_history).id, inputs[turn])

C18_Steps ==
    /\ pc = "raised" => pc' = "input" /\ conversation_history' = conversation_history
    /\ (pc = "input" /\ pc' = "agent") =>
          /\ Len(state') = Len(conversation_history) + 1
          /\ IsPrefix(conversation_history, state')
          /\ Last(state') = HumanMessage(Last(state').id, Last(inputs'))
          /\ (conversation_history # <<>> /\ Last(conversation_history).type = "human") =>
                state'[Len(state') - 1].type = "human"

C18_FailedTurnStays == []C18_WhileRaising /\ [][C18_Steps]_vars

\* C18 witness: after a turn that returned and a turn that raised, the third
\* turn's graph starts on a state that ends in two user messages.
C18_Witness ==
    /\ pc = "agent" /\ turn = 3 /\ failures = 1 /\ Len(state) >= 4
    /\ state[Len(state) - 1].type = "human"
    /\ Last(state).type = "human"

(***************************************************************************)
(* Properties of main's examples loop (checked under SpecExamples).        *)
(***************************************************************************)
\* C19: given an empty list, run works on a list of its own: the list main
\* passes to every example stays empty, each example's run starts on a state
\* holding that example's user message and nothing else, and while it runs
\* and when it has ended its state holds no other user message and no message
\* of an earlier example.
C19_ExamplesStartFresh ==
    /\ conversation_history = <<>>
    /\ pc \in {"agent", "tools", "returned", "raised"} =>
          /\ given = <<>>
          /\ state[1] = HumanMessage(state[1].id, examples[turn])
          /\ Len(Select(state, "human")) = 1
          /\ \A i \in 1..Len(state) : state[i].id >= state[1].id
    /\ (pc = "agent" /\ rounds = 0) => Len(state) = 1

\* C19 witness: the second example's run has returned, after a round of
\* tools, with only its own messages.
C19_Witness ==
    /\ pc = "returned" /\ turn = 2 /\ rounds = 1
    /\ state[1].content = Text(examples[2])

(***************************************************************************)
(* The order of the poller's checks (checked under SpecPoll).              *)
(***************************************************************************)
PollEnded == pollPc \in {"returned", "failed", "timeout", "http_error"}

C20_WitnessDoneButFalse ==
    /\ pollPc = "failed"
    /\ Last(polled) = Payload("done", "false")

====
